---- MODULE Spec2Model ----
(***************************************************************************)
(* A model of the presentation generator of src/ppt_generator.py and of    *)
(* its caller src/app.py: the pipeline generate_presentation (credential   *)
(* check, web search, content synthesis with fallback, slide assembly      *)
(* with per-key-point image resolution, save) and the pure functions it    *)
(* uses (filename sanitization, title-casing, JSON span extraction).       *)
(*                                                                         *)
(* A text is a sequence of one-character strings.  A model response is a   *)
(* sequence of lexical tokens.  A JSON value is a tagged record.           *)
(***************************************************************************)
EXTENDS Integers, Sequences, FiniteSets, TLC

VARIABLES
    pc,              \* position of generate_presentation
    gemini_api_key,  \* self.gemini_api_key is set (truthy)
    serpapi_api_key, \* self.serpapi_api_key is set (truthy)
    model,           \* self.model is a configured model (FALSE: None)
    topic,           \* the topic argument / local (<<>>: not given)
    web_results,     \* local web_results of generate_presentation
    results,         \* what the search provider answered to the last search
    response,        \* local response of generate_llm_content
    llm_path,        \* which return of generate_llm_content was taken
    content,         \* local content of generate_presentation
    slides,          \* prs.slides of the presentation being assembled
    kp,              \* index of the key point the for loop is at
    image_url,       \* local image_url of the loop body
    image_path,      \* local image_path of the loop body
    img_event,       \* what image resolution met for the current key point
    temp_files,      \* temporary image files that exist on the filesystem
    disk,            \* the file of the derived filename on the filesystem
    filename,        \* local filename of save_presentation
    exc,             \* the exception propagating in generate_presentation
    result,          \* how generate_presentation ended, and its value
    ran,             \* the pipeline stages that have run
    now,             \* the clock read by datetime.now()
    safe_topic,      \* safe_topic of save_presentation
    applied,         \* how many times the sanitization has been applied
    ui               \* what the generate button handler of app.py showed

vars == << pc, gemini_api_key, serpapi_api_key, model, topic, web_results,
           results, response, llm_path, content, slides, kp, image_url, image_path,
           img_event, temp_files, disk, filename, exc, result, ran, now,
           safe_topic, applied, ui >>

----------------------------------------------------------------------------
(* Bounds of the model. *)

\* longest topic drawn exhaustively over Alphabet in SpecName
MaxTopicLen == 4
\* longest model response drawn exhaustively over NoiseTok
MaxNoiseLen == 3
\* most organic results the search provider returns
MaxOrganic == 2
\* most times the sanitization is re-applied to its own result in SpecName
MaxApply == 2
\* most organic results the search provider returns in SpecSearch
MaxResults == 6

----------------------------------------------------------------------------
(* Characters and the character classes of Python's re and str. *)

UpperLetters == <<"A","B","C","D","E","F","G","H","I","J","K","L","M",
                  "N","O","P","Q","R","S","T","U","V","W","X","Y","Z">>
LowerLetters == <<"a","b","c","d","e","f","g","h","i","j","k","l","m",
                  "n","o","p","q","r","s","t","u","v","w","x","y","z">>
Digits == <<"0","1","2","3","4","5","6","7","8","9">>

Range(s) == { s[i] : i \in DOMAIN s }

IndexOf(s, c) == CHOOSE i \in DOMAIN s : s[i] = c

\* [A-Z], [a-z], [0-9] and \s of the patterns in save_presentation
IsUpper(c) == c \in Range(UpperLetters)
IsLower(c) == c \in Range(LowerLetters)
IsDigit(c) == c \in Range(Digits)
IsSpace(c) == c \in {" ", "\t", "\n"}

\* "e'" stands for one non-ASCII letter (U+00E9): cased for str.title and
\* str.lower, outside [a-zA-Z]; "E'" is its capital (U+00C9).
IsCased(c) == IsUpper(c) \/ IsLower(c) \/ c \in {"e'", "E'"}

\* str.lower() and str.upper() on one character
LowerChar(c) ==
    IF IsUpper(c) THEN LowerLetters[IndexOf(UpperLetters, c)]
    ELSE IF c = "E'" THEN "e'" ELSE c

UpperChar(c) ==
    IF IsLower(c) THEN UpperLetters[IndexOf(LowerLetters, c)]
    ELSE IF c = "e'" THEN "E'" ELSE c

\* str.lower()
Lower(s) == [ i \in DOMAIN s |-> LowerChar(s[i]) ]

----------------------------------------------------------------------------
(* save_presentation: the derivation of the filename. *)

\* re.sub(r'[^a-zA-Z0-9\s]', '', topic): left to right, every character
\* outside the class is replaced by the empty string
RECURSIVE StripKeepingUnderscore(_)
StripKeepingUnderscore(s) ==
    IF s = <<>> THEN <<>>
    ELSE IF IsUpper(Head(s)) \/ IsLower(Head(s)) \/ IsDigit(Head(s)) \/ IsSpace(Head(s))
            \/ Head(s) = "_"
         THEN <<Head(s)>> \o StripKeepingUnderscore(Tail(s))
         ELSE StripKeepingUnderscore(Tail(s))

RECURSIVE StripUnsafe(_)
StripUnsafe(s) ==
    IF s = <<>> THEN <<>>
    ELSE IF IsUpper(Head(s)) \/ IsLower(Head(s)) \/ IsDigit(Head(s)) \/ IsSpace(Head(s))
         THEN <<Head(s)>> \o StripUnsafe(Tail(s))
         ELSE StripUnsafe(Tail(s))

\* the length of the longest prefix of s made of whitespace (the greedy \s+)
RECURSIVE SpaceRun(_)
SpaceRun(s) ==
    IF s = <<>> \/ ~IsSpace(Head(s)) THEN 0 ELSE 1 + SpaceRun(Tail(s))

\* re.sub(r'\s+', '_', s): each leftmost greedy match is replaced by "_"
RECURSIVE CollapseSpaceEach(_)
CollapseSpaceEach(s) ==
    IF s = <<>> THEN <<>>
    ELSE IF IsSpace(Head(s))
         THEN <<"_">> \o CollapseSpaceEach(Tail(s))
         ELSE <<Head(s)>> \o CollapseSpaceEach(Tail(s))

RECURSIVE CollapseSpace(_)
CollapseSpace(s) ==
    IF s = <<>> THEN <<>>
    ELSE IF IsSpace(Head(s))
         THEN <<"_">> \o CollapseSpace(SubSeq(s, SpaceRun(s) + 1, Len(s)))
         ELSE <<Head(s)>> \o CollapseSpace(Tail(s))

\* lines 408-409: the two substitutions, then .lower()
Sanitize(t) == Lower(CollapseSpace(StripUnsafe(t)))

\* "%02d" and "%04d" of strftime
Pad2(n) == << Digits[((n \div 10) % 10) + 1], Digits[(n % 10) + 1] >>

Pad4(n) ==
    << Digits[((n \div 1000) % 10) + 1], Digits[((n \div 100) % 10) + 1] >> \o Pad2(n % 100)

\* datetime.strftime("%Y%m%d_%H%M%S")
Strftime(d) ==
    Pad4(d.year) \o Pad2(d.month) \o Pad2(d.day) \o <<"_">>
    \o Pad2(d.hour) \o Pad2(d.minute) \o Pad2(d.second)

\* line 411: f"presentation_{safe_topic}_{timestamp}.pptx"
FileName(safe, d) ==
    <<"presentation_">> \o safe \o <<"_">> \o Strftime(d) \o <<".pptx">>

----------------------------------------------------------------------------
(* str.title(), used by _get_fallback_content. *)

\* a cased character that follows a cased character is lowercased, any
\* other cased character is uppercased, uncased characters are kept
RECURSIVE TitleFrom(_, _)
TitleFrom(s, prevCased) ==
    IF s = <<>> THEN <<>>
    ELSE IF IsCased(Head(s))
         THEN << IF prevCased THEN LowerChar(Head(s)) ELSE UpperChar(Head(s)) >>
              \o TitleFrom(Tail(s), TRUE)
         ELSE <<Head(s)>> \o TitleFrom(Tail(s), FALSE)

TitleKeep(s) == s

Title(s) == TitleFrom(s, FALSE)

----------------------------------------------------------------------------
(* JSON values, as json.loads builds them: dict, list, str, number. *)

Str(s) == [ t |-> "str", s |-> s, m |-> <<>>, e |-> <<>> ]
Num == [ t |-> "num", s |-> <<>>, m |-> <<>>, e |-> <<>> ]
Obj(m) == [ t |-> "obj", s |-> <<>>, m |-> m, e |-> <<>> ]
Lst(e) == [ t |-> "list", s |-> <<>>, m |-> <<>>, e |-> e ]

\* the value None of the locals that hold no JSON value yet
NoValue == [ t |-> "none", s |-> <<>>, m |-> <<>>, e |-> <<>> ]

\* d[k] succeeds: d is a dict holding k (otherwise KeyError or TypeError)
Has(d, k) == d.t = "obj" /\ k \in DOMAIN d.m

\* d[k] = v (a repeated key keeps the last value)
Put(d, k, v) == (k :> v) @@ d

----------------------------------------------------------------------------
(* The model's raw text, as a sequence of lexical tokens: braces and       *)
(* brackets, a key with its colon, a string literal, a number, and "x", a  *)
(* word of prose.  Commas and white space are left to the lexer.           *)

KeyName ==
    ("title_slide:" :> "title_slide") @@ ("overview:" :> "overview")
    @@ ("key_points:" :> "key_points") @@ ("conclusion:" :> "conclusion")
    @@ ("title:" :> "title") @@ ("subtitle:" :> "subtitle")
    @@ ("content:" :> "content")

KeyTok == DOMAIN KeyName

StrTok == { "T", "S", "O", "C", "K1", "K2", "K3", "K4", "K5",
            "b0", "b1", "b2", "b3", "b4", "b5", "b6" }

NumTok == { "7" }

\* json.loads: a recursive-descent scan.  Each operator returns whether a
\* value was read, the value, and the position after it.
Fail == [ ok |-> FALSE, val |-> NoValue, pos |-> 0 ]

RECURSIVE ParseValue(_, _), ParseMembers(_, _, _), ParseElems(_, _, _)

ParseValue(t, i) ==
    IF i > Len(t) THEN Fail
    ELSE IF t[i] = "{" THEN ParseMembers(t, i + 1, <<>>)
    ELSE IF t[i] = "[" THEN ParseElems(t, i + 1, <<>>)
    ELSE IF t[i] \in StrTok THEN [ ok |-> TRUE, val |-> Str(<<t[i]>>), pos |-> i + 1 ]
    ELSE IF t[i] \in NumTok THEN [ ok |-> TRUE, val |-> Num, pos |-> i + 1 ]
    ELSE Fail

ParseMembers(t, i, m) ==
    IF i > Len(t) THEN Fail
    ELSE IF t[i] = "}" THEN [ ok |-> TRUE, val |-> Obj(m), pos |-> i + 1 ]
    ELSE IF t[i] \in KeyTok
         THEN LET r == ParseValue(t, i + 1)
              IN  IF r.ok THEN ParseMembers(t, r.pos, Put(m, KeyName[t[i]], r.val))
                  ELSE Fail
         ELSE Fail

ParseElems(t, i, e) ==
    IF i > Len(t) THEN Fail
    ELSE IF t[i] = "]" THEN [ ok |-> TRUE, val |-> Lst(e), pos |-> i + 1 ]
    ELSE LET r == ParseValue(t, i)
         IN  IF r.ok THEN ParseElems(t, r.pos, Append(e, r.val)) ELSE Fail

\* json.loads(s): one value, and nothing after it ("Extra data" otherwise)
JsonLoads(t) ==
    LET r == ParseValue(t, 1)
    IN  IF r.ok /\ r.pos = Len(t) + 1 THEN r ELSE Fail

Positions(t, c) == { i \in DOMAIN t : t[i] = c }

Min(S) == CHOOSE x \in S : \A y \in S : x <= y
Max(S) == CHOOSE x \in S : \A y \in S : x >= y

\* re.search(r'\{.*\}', content, re.DOTALL): the leftmost "{" that a "}"
\* follows, and greedily the last "}"; <<>> stands for no match
GreedySpan(t) ==
    LET opens == Positions(t, "{")
        closes == Positions(t, "}")
    IN  IF opens = {} \/ closes = {} \/ Max(closes) < Min(opens) THEN <<>>
        ELSE SubSeq(t, Min(opens), Max(closes))

----------------------------------------------------------------------------
(* _get_fallback_content: the template content, built from the topic. *)

Section(title, bullets) ==
    Obj(("title" :> Str(title)) @@ ("content" :> Lst(bullets)))

Line(s) == Str(<<s>>)

FallbackKeyPoints ==
    << Section(<<"Background & Context">>,
               << Line("Historical development and evolution"),
                  Line("Current market or industry status"),
                  Line("Key stakeholders and participants"),
                  Line("Regulatory and policy framework"),
                  Line("Global trends and patterns") >>),
       Section(<<"Challenges & Obstacles">>,
               << Line("Technical limitations and barriers"),
                  Line("Economic and financial constraints"),
                  Line("Regulatory and compliance issues"),
                  Line("Market adoption challenges"),
                  Line("Competition and market dynamics") >>),
       Section(<<"Innovations & Solutions">>,
               << Line("Emerging technologies and approaches"),
                  Line("Best practices and methodologies"),
                  Line("Case studies and success stories"),
                  Line("Investment and funding opportunities"),
                  Line("Partnership and collaboration models") >>),
       Section(<<"Future Outlook & Impact">>,
               << Line("Projected growth and development"),
                  Line("Potential market opportunities"),
                  Line("Long-term implications and effects"),
                  Line("Recommendations for stakeholders"),
                  Line("Next steps and action items") >>) >>

FallbackContent(tp) ==
    Obj(("title_slide" :> Obj(("title" :> Str(<<"Comprehensive Analysis: ">> \o Title(tp)))
                              @@ ("subtitle" :> Str(tp))))
        @@ ("overview" :> Section(<<"Overview">>,
               << Str(<<"Introduction to ">> \o tp),
                  Line("Current state and significance"),
                  Line("Key areas of focus"),
                  Line("Expected outcomes and insights") >>))
        @@ ("key_points" :> Lst(FallbackKeyPoints))
        @@ ("conclusion" :> Section(<<"Conclusion">>,
               << Str(tp \o <<" represents a significant opportunity">>),
                  Line("Key challenges must be addressed strategically"),
                  Line("Innovation and collaboration are essential"),
                  Line("The future looks promising with proper execution") >>)))

----------------------------------------------------------------------------
(* generate_llm_content, lines 297-312: what it returns for a response of  *)
(* the model.  A response either raises or carries a text.                 *)

Raises == [ raises |-> TRUE, text |-> <<>> ]
Text(t) == [ raises |-> FALSE, text |-> t ]
NoResponse == [ raises |-> FALSE, text |-> <<"none">> ]

\* the return taken: "parsed" (line 306) or the except clause (line 312)
\* after the call raised, after no span matched, after json.loads raised
LlmPath(r) ==
    IF r.raises THEN "raise"
    ELSE IF GreedySpan(r.text) = <<>> THEN "no_match"
    ELSE IF JsonLoads(GreedySpan(r.text)).ok THEN "parsed"
    ELSE "parse_error"

LlmContent(r, tp) ==
    IF LlmPath(r) = "parsed" THEN JsonLoads(GreedySpan(r.text)).val
    ELSE FallbackContent(tp)

----------------------------------------------------------------------------
(* The PresentationContent schema. *)

IsStr(v) == v.t = "str"

IsStrList(v) == v.t = "list" /\ \A i \in DOMAIN v.e : IsStr(v.e[i])

IsSection(v) ==
    /\ Has(v, "title") /\ IsStr(v.m["title"])
    /\ Has(v, "content") /\ IsStrList(v.m["content"])

TopKeys == { "title_slide", "overview", "key_points", "conclusion" }

\* the top-level keys, and a key_points list of length 4
HasShape(c) ==
    /\ \A k \in TopKeys : Has(c, k)
    /\ c.m["key_points"].t = "list"
    /\ Len(c.m["key_points"].e) = 4

SchemaValid(c) ==
    /\ HasShape(c)
    /\ Has(c.m["title_slide"], "title") /\ IsStr(c.m["title_slide"].m["title"])
    /\ Has(c.m["title_slide"], "subtitle") /\ IsStr(c.m["title_slide"].m["subtitle"])
    /\ IsSection(c.m["overview"])
    /\ \A i \in 1..4 : IsSection(c.m["key_points"].e[i])
    /\ IsSection(c.m["conclusion"])

----------------------------------------------------------------------------
(* The inputs of a run: topics, the search provider's answers, the model's *)
(* raw texts, the clock.                                                   *)

AIEthics == <<"A","I"," ","E","t","h","i","c","s">>
FutureOfAI == <<"F","u","t","u","r","e"," ","o","f"," ","A","I","!">>

\* the topics a caller passes, or types at the prompt of get_user_topic
Topics == { AIEthics, FutureOfAI }

NoTime == [ year |-> 0, month |-> 0, day |-> 0, hour |-> 0, minute |-> 0, second |-> 0 ]

Timestamps ==
    { [ year |-> 2024, month |-> 1, day |-> 1, hour |-> 0, minute |-> 0, second |-> 0 ],
      [ year |-> 2025, month |-> 12, day |-> 31, hour |-> 23, minute |-> 59, second |-> 59 ] }

\* An answer of the search provider: the call raises, or returns a dict
\* with or without "organic_results"; a result is 0 (no "snippet" key) or
\* the number of its snippet.
SeqsUpTo(S, n) == UNION { [1..k -> S] : k \in 0..n }

OrganicListsUpTo(n) ==
    { [ i \in DOMAIN b |-> IF b[i] THEN i ELSE 0 ] : b \in SeqsUpTo(BOOLEAN, n) }

OrganicLists == OrganicListsUpTo(MaxOrganic)

WebResponsesOf(lists) ==
    { [ raises |-> TRUE, has_organic |-> FALSE, organic |-> <<>> ],
      [ raises |-> FALSE, has_organic |-> FALSE, organic |-> <<>> ] }
    \cup { [ raises |-> FALSE, has_organic |-> TRUE, organic |-> o ] : o \in lists }

WebResponses == WebResponsesOf(OrganicLists)

\* texts of the model: a JSON object between prose, and short arbitrary texts
KeyPointTitle == << "K1", "K2", "K3", "K4", "K5" >>
KeyPointBullet == << "b1", "b2", "b3", "b4", "b5" >>

TitleSlideText == << "title_slide:", "{", "title:", "T", "subtitle:", "S", "}" >>
OverviewText == << "overview:", "{", "title:", "O", "content:", "[", "b0", "]", "}" >>
ConclusionText == << "conclusion:", "{", "title:", "C", "content:", "[", "b6", "]", "}" >>
KeyPointText(i) ==
    << "{", "title:", KeyPointTitle[i], "content:", "[", KeyPointBullet[i], "]", "}" >>
BareKeyPointText(i) == << "{", "title:", KeyPointTitle[i], "}" >>

RECURSIVE Concat(_)
Concat(ss) == IF ss = <<>> THEN <<>> ELSE Head(ss) \o Concat(Tail(ss))

KeyPointsText(n) ==
    << "key_points:", "[" >> \o Concat([ i \in 1..n |-> KeyPointText(i) ]) \o << "]" >>

ObjectText(members) == << "{" >> \o members \o << "}" >>

ObjectTexts ==
    { ObjectText(TitleSlideText \o OverviewText \o KeyPointsText(n) \o ConclusionText)
        : n \in 3..5 }
    \cup { ObjectText(OverviewText \o KeyPointsText(4) \o ConclusionText),
           ObjectText(TitleSlideText \o KeyPointsText(4) \o ConclusionText),
           ObjectText(TitleSlideText \o OverviewText \o ConclusionText),
           ObjectText(TitleSlideText \o OverviewText \o KeyPointsText(4)),
           ObjectText(TitleSlideText \o OverviewText
                      \o << "key_points:", "[" >> \o KeyPointText(1) \o BareKeyPointText(2)
                      \o KeyPointText(3) \o KeyPointText(4) \o << "]" >> \o ConclusionText),
           ObjectText(TitleSlideText \o OverviewText \o KeyPointsText(4) \o ConclusionText
                      \o << "key_points:", "7" >>) }

ProseBefore == { <<>>, << "x" >>, << "x", "{", "x", "}", "x" >> }
ProseAfter == { <<>>, << "x" >>, << "x", "{", "x", "}" >>, << "}" >> }

NoiseTok == { "{", "}", "x", "key_points:", "T" }

RawTexts ==
    { a \o o \o b : a \in ProseBefore, o \in ObjectTexts, b \in ProseAfter }
    \cup SeqsUpTo(NoiseTok, MaxNoiseLen)

ModelResponses == { Raises } \cup { Text(r) : r \in RawTexts }

----------------------------------------------------------------------------
(* perform_web_search, lines 141-166. *)

RECURSIVE Snippets(_)
Snippets(organic) ==
    IF organic = <<>> THEN <<>>
    ELSE IF Head(organic) # 0 THEN <<Head(organic)>> \o Snippets(Tail(organic))
         ELSE Snippets(Tail(organic))

FirstN(s, n) == SubSeq(s, 1, IF Len(s) < n THEN Len(s) ELSE n)

\* the organic results are cut to five before the snippets are taken
WebSearchFirstFive(r) ==
    IF r.raises \/ ~r.has_organic THEN <<>>
    ELSE Snippets(FirstN(r.organic, 5))

WebSearch(r) ==
    IF r.raises \/ ~r.has_organic THEN <<>>
    ELSE FirstN(Snippets(r.organic), 5)

----------------------------------------------------------------------------
(* The state of a run. *)

NoExc == [ type |-> "none", stage |-> "none" ]
NoResult == [ kind |-> "running", value |-> <<>> ]
NoFile == [ state |-> "absent", slides |-> <<>> ]
NoPath == 0
\* no search has been answered yet
NoResults == [ raises |-> FALSE, has_organic |-> FALSE, organic |-> <<>> ]

\* the stage each position of the pipeline belongs to
StageOf(p) ==
    CASE p \in { "start", "topic" } -> "config"
      [] p = "search" -> "web_search"
      [] p \in { "llm", "extract" } -> "synthesis"
      [] p = "image_search" -> "image_search"
      [] p = "download" -> "image_download"
      [] p \in { "title", "overview", "loop", "add_slide", "conclusion" } -> "assembly"
      [] p = "save" -> "save"
      [] OTHER -> "none"

Running == { "start", "topic", "search", "llm", "extract", "title", "overview",
             "loop", "image_search", "download", "add_slide", "conclusion", "save" }

\* Init for every process: PowerPointGenerator.__init__ has read the two
\* keys from the environment and configured the model, or set it to None.
InitRun ==
    /\ pc = "start"
    /\ gemini_api_key \in BOOLEAN
    /\ serpapi_api_key \in BOOLEAN
    /\ model \in BOOLEAN
    /\ topic \in Topics \cup { <<>> }
    /\ web_results = <<>>
    /\ results = NoResults
    /\ response = NoResponse
    /\ llm_path = "none"
    /\ content = NoValue
    /\ slides = <<>>
    /\ kp = 0
    /\ image_url = FALSE
    /\ image_path = NoPath
    /\ img_event = "none"
    /\ temp_files = {}
    /\ disk = NoFile
    /\ filename = <<>>
    /\ exc = NoExc
    /\ result = NoResult
    /\ ran = {}
    /\ now = NoTime
    /\ safe_topic = <<>>
    /\ applied = 0
    /\ ui = "none"

Init == InitRun

\* An exception of type ty leaves the try block of generate_presentation:
\* the locals of the frames it unwinds are gone, the files stay.
Raise(ty) ==
    /\ exc' = [ type |-> ty, stage |-> StageOf(pc) ]
    /\ pc' = "except"
    /\ web_results' = <<>>
    /\ response' = NoResponse
    /\ content' = NoValue
    /\ slides' = <<>>
    /\ kp' = 0
    /\ image_url' = FALSE
    /\ image_path' = NoPath

Environment == << gemini_api_key, serpapi_api_key, model >>
NameVars == << now, safe_topic, applied, filename >>

----------------------------------------------------------------------------
(* generate_presentation, lines 426-437, step by step. *)

\* lines 428-429
CheckKeys ==
    /\ pc = "start"
    /\ IF ~gemini_api_key \/ ~serpapi_api_key
       THEN /\ Raise("ValueError")
            /\ UNCHANGED img_event
       ELSE /\ pc' = "topic"
            /\ UNCHANGED << web_results, response, content, slides, kp, image_url,
                            image_path, img_event, exc >>
    /\ UNCHANGED << Environment, results, NameVars, topic, llm_path, temp_files, disk,
                    result, ran, ui >>

\* lines 431-432, and get_user_topic, which returns a non-empty topic
GetTopic ==
    /\ pc = "topic"
    /\ IF topic = <<>> THEN topic' \in Topics ELSE topic' = topic
    /\ pc' = "search"
    /\ UNCHANGED << Environment, results, NameVars, web_results, response, llm_path, content,
                    slides, kp, image_url, image_path, img_event, temp_files, disk,
                    exc, result, ran, ui >>

\* line 434, and perform_web_search, lines 141-166, for a provider that
\* answers one of answers
SearchWith(answers) ==
    /\ pc = "search"
    /\ results' \in answers
    /\ web_results' = WebSearch(results')
    /\ ran' = ran \cup { "web_search" }
    /\ pc' = "llm"
    /\ UNCHANGED << Environment, NameVars, topic, response, llm_path, content, slides,
                    kp, image_url, image_path, img_event, temp_files, disk, exc,
                    result, ui >>

perform_web_search == SearchWith(WebResponses)

\* line 298: self.model.generate_content(prompt); with self.model None the
\* attribute access raises
ModelCall ==
    /\ pc = "llm"
    /\ IF model THEN response' \in ModelResponses ELSE response' = Raises
    /\ ran' = ran \cup { "model_call" }
    /\ pc' = "extract"
    /\ UNCHANGED << Environment, results, NameVars, topic, web_results, llm_path, content,
                    slides, kp, image_url, image_path, img_event, temp_files, disk,
                    exc, result, ui >>

\* lines 299-312, and the return to line 435
ExtractContent ==
    /\ pc = "extract"
    /\ content' = LlmContent(response, topic)
    /\ llm_path' = LlmPath(response)
    /\ response' = NoResponse
    /\ pc' = "title"
    /\ UNCHANGED << Environment, results, NameVars, topic, web_results, slides, kp, image_url,
                    image_path, img_event, temp_files, disk, exc, result, ran, ui >>

----------------------------------------------------------------------------
(* create_presentation, lines 388-402, with _add_title_slide and           *)
(* _add_content_slide.                                                     *)

\* d[k] on a value that does not hold k: KeyError on a dict, TypeError on
\* a list, a str or a number
LookupErr(d) == IF d.t = "obj" THEN "KeyError" ELSE "TypeError"

\* what a for loop or a list comprehension iterates over: the elements of
\* a list, the characters of a str, the keys of a dict (here in a fixed
\* order); a number is not iterable
Iterable(v) == v.t \in { "list", "str", "obj" }

RECURSIVE KeySeq(_)
KeySeq(K) ==
    IF K = {} THEN <<>>
    ELSE LET k == CHOOSE x \in K : TRUE IN << Line(k) >> \o KeySeq(K \ {k})

Items(v) ==
    IF v.t = "list" THEN v.e
    ELSE IF v.t = "str" THEN [ i \in DOMAIN v.s |-> Str(<<v.s[i]>>) ]
    ELSE KeySeq(DOMAIN v.m)

\* the exception, if any, of title.text = ... and p.text = point (lines
\* 95-101): the text of a shape or a paragraph must be a str
BuildErr(title, content_list) ==
    IF ~IsStr(title) \/ ~Iterable(content_list) THEN "TypeError"
    ELSE IF \E i \in DOMAIN Items(content_list) : ~IsStr(Items(content_list)[i])
         THEN "TypeError"
         ELSE "none"

\* the exception, if any, of evaluating section["title"], section["content"]
SectionErr(sec) ==
    IF ~Has(sec, "title") THEN LookupErr(sec)
    ELSE IF ~Has(sec, "content") THEN "KeyError"
    ELSE BuildErr(sec.m["title"], sec.m["content"])

\* the slide _add_title_slide adds (lines 85-90)
TitleSlide(ts) ==
    [ layout |-> "title", title |-> ts.m["title"].s,
      body |-> << ts.m["subtitle"].s >>, picture |-> FALSE ]

\* the slide _add_content_slide adds (lines 94-108)
ContentSlide(title, content_list, picture) ==
    [ layout |-> "content", title |-> title.s,
      body |-> [ i \in DOMAIN Items(content_list) |-> Items(content_list)[i].s ],
      picture |-> picture ]

SectionSlide(sec) == ContentSlide(sec.m["title"], sec.m["content"], FALSE)

NameEnv == << Environment, results, NameVars, topic, llm_path, disk, result, ran, ui >>

\* lines 388 and 391
AddTitleSlide ==
    /\ pc = "title"
    /\ IF ~Has(content, "title_slide")
       THEN Raise("KeyError")
       ELSE LET ts == content.m["title_slide"]
            IN  IF ~Has(ts, "title") \/ ~Has(ts, "subtitle")
                THEN Raise(LookupErr(ts))
                ELSE IF ~IsStr(ts.m["title"]) \/ ~IsStr(ts.m["subtitle"])
                THEN Raise("TypeError")
                ELSE /\ slides' = Append(slides, TitleSlide(ts))
                     /\ pc' = "overview"
                     /\ UNCHANGED << web_results, response, content, kp, image_url,
                                     image_path, exc >>
    /\ UNCHANGED << NameEnv, img_event, temp_files >>

\* line 392
AddOverviewSlide ==
    /\ pc = "overview"
    /\ IF ~Has(content, "overview")
       THEN Raise("KeyError")
       ELSE IF SectionErr(content.m["overview"]) # "none"
       THEN Raise(SectionErr(content.m["overview"]))
       ELSE /\ slides' = Append(slides, SectionSlide(content.m["overview"]))
            /\ pc' = "loop"
            /\ UNCHANGED << web_results, response, content, kp, image_url,
                            image_path, exc >>
    /\ UNCHANGED << NameEnv, img_event, temp_files >>

\* line 394: the head of the for loop over content["key_points"]
NextKeyPoint ==
    /\ pc = "loop"
    /\ IF ~Has(content, "key_points")
       THEN Raise("KeyError") /\ UNCHANGED img_event
       ELSE IF ~Iterable(content.m["key_points"])
       THEN Raise("TypeError") /\ UNCHANGED img_event
       ELSE /\ IF kp < Len(Items(content.m["key_points"]))
               THEN kp' = kp + 1 /\ pc' = "image_search"
               ELSE kp' = kp /\ pc' = "conclusion"
            /\ image_url' = FALSE
            /\ image_path' = NoPath
            /\ img_event' = "none"
            /\ UNCHANGED << web_results, response, content, slides, exc >>
    /\ UNCHANGED << NameEnv, temp_files >>

key_point == Items(content.m["key_points"])[kp]

SearchOutcomes ==
    { "search_raises", "no_images_results", "empty_images_results", "no_original",
      "url_found" }

\* line 395 and perform_image_search (lines 171-190): every failure of the
\* search returns None; .get("original") of a result without it is None
perform_image_search ==
    /\ pc = "image_search"
    /\ IF ~Has(key_point, "title")
       THEN /\ Raise(LookupErr(key_point))
            /\ UNCHANGED << img_event, ran >>
       ELSE /\ \E o \in SearchOutcomes :
                 /\ img_event' = o
                 /\ image_url' = (o = "url_found")
            /\ ran' = ran \cup { "image_search" }
            /\ pc' = "download"
            /\ UNCHANGED << web_results, response, content, slides, kp, image_path, exc >>
    /\ UNCHANGED << Environment, results, NameVars, topic, llm_path, disk, result, ui, temp_files >>

DownloadOutcomes ==
    { "status_not_200", "request_exception", "stream_exception", "os_error_create",
      "os_error_write", "downloaded" }

\* the outcomes after which the temporary file exists: NamedTemporaryFile
\* (delete=False) has created it
FileCreated(o) == o \in { "stream_exception", "os_error_write", "downloaded" }

\* the outcomes that leave get_image_from_url as an exception: line 204
\* catches requests.exceptions.RequestException only
DownloadRaises(o) == o \in { "os_error_create", "os_error_write" }

\* line 396 and get_image_from_url (lines 194-206); the temporary file of
\* key point kp is named kp
get_image_from_url ==
    /\ pc = "download"
    /\ IF ~image_url
       THEN /\ image_path' = NoPath
            /\ pc' = "add_slide"
            /\ UNCHANGED << web_results, response, content, slides, kp, image_url, exc,
                            img_event, temp_files, ran >>
       ELSE \E o \in DownloadOutcomes :
              /\ img_event' = o
              /\ temp_files' = IF FileCreated(o) THEN temp_files \cup { kp } ELSE temp_files
              /\ ran' = ran \cup { "image_download" }
              /\ IF DownloadRaises(o)
                 THEN Raise("OSError")
                 ELSE /\ image_path' = IF o = "downloaded" THEN kp ELSE NoPath
                      /\ pc' = "add_slide"
                      /\ UNCHANGED << web_results, response, content, slides, kp,
                                      image_url, exc >>
    /\ UNCHANGED << Environment, results, NameVars, topic, llm_path, disk, result, ui >>

\* lines 112-114: the finally clause of the embed attempt
AfterEmbed(files, path) == files \ { path }

\* lines 94-111: the slide is added and filled, then the picture is tried
KeyPointSlideDropped(prs, kpt, picture) ==
    IF picture THEN Append(prs, ContentSlide(kpt.m["title"], kpt.m["content"], TRUE))
    ELSE prs

KeyPointSlide(prs, kpt, picture) ==
    Append(prs, ContentSlide(kpt.m["title"], kpt.m["content"], picture))

\* line 397 and _add_content_slide (lines 94-114) for a key point
AddKeyPointSlide ==
    /\ pc = "add_slide"
    /\ IF ~Has(key_point, "content")
       THEN /\ Raise("KeyError")
            /\ UNCHANGED << img_event, temp_files >>
       ELSE IF BuildErr(key_point.m["title"], key_point.m["content"]) # "none"
       THEN /\ Raise("TypeError")
            /\ UNCHANGED << img_event, temp_files >>
       ELSE /\ IF image_path # NoPath
               THEN \E embedded \in BOOLEAN :
                      /\ slides' = KeyPointSlide(slides, key_point, embedded)
                      /\ img_event' = IF embedded THEN "embedded" ELSE "embed_raises"
                      /\ temp_files' = AfterEmbed(temp_files, image_path)
               ELSE /\ slides' = KeyPointSlide(slides, key_point, FALSE)
                    /\ UNCHANGED << img_event, temp_files >>
            /\ pc' = "loop"
            /\ UNCHANGED << web_results, response, content, kp, image_url, image_path, exc >>
    /\ UNCHANGED NameEnv

\* lines 399-402
AddConclusionSlide ==
    /\ pc = "conclusion"
    /\ IF ~Has(content, "conclusion")
       THEN Raise("KeyError")
       ELSE IF SectionErr(content.m["conclusion"]) # "none"
       THEN Raise(SectionErr(content.m["conclusion"]))
       ELSE /\ slides' = Append(slides, SectionSlide(content.m["conclusion"]))
            /\ pc' = "save"
            /\ UNCHANGED << web_results, response, content, kp, image_url,
                            image_path, exc >>
    /\ UNCHANGED << NameEnv, img_event, temp_files >>

----------------------------------------------------------------------------
(* save_presentation, lines 408-419, and the end of generate_presentation. *)

\* how prs.save(filename) ends: the file is written; or the write fails
\* before the file is opened; or it fails after, and the file holds a part
SaveOutcomes == { "saved", "write_fails_unopened", "write_fails_partial" }

FileAfter(o, prs) ==
    CASE o = "saved" -> [ state |-> "complete", slides |-> prs ]
      [] o = "write_fails_partial" -> [ state |-> "partial", slides |-> <<>> ]
      [] OTHER -> NoFile

\* generate_presentation returns v (lines 447, 450, 454)
Return(k, v) ==
    /\ result' = [ kind |-> k, value |-> v ]
    /\ pc' = "done"
    /\ web_results' = <<>>
    /\ response' = NoResponse
    /\ content' = NoValue
    /\ slides' = <<>>
    /\ kp' = 0
    /\ image_url' = FALSE
    /\ image_path' = NoPath

\* lines 417-419: the error is printed and raised again
SaveFailureAbsorbed ==
    /\ Return("filename", filename')
    /\ UNCHANGED exc

SaveFailure ==
    /\ Raise("OSError")
    /\ UNCHANGED result

\* line 437, then lines 439-447
save_presentation ==
    /\ pc = "save"
    /\ safe_topic' = Sanitize(topic)
    /\ applied' = 1
    /\ now' \in Timestamps
    /\ filename' = FileName(safe_topic', now')
    /\ ran' = ran \cup { "file_write" }
    /\ \E o \in SaveOutcomes :
         /\ disk' = FileAfter(o, slides)
         /\ IF o = "saved"
            THEN Return("filename", filename') /\ UNCHANGED exc
            ELSE SaveFailure
    /\ UNCHANGED << Environment, results, topic, llm_path, img_event, temp_files, ui >>

\* the user presses Ctrl-C while the pipeline runs
Interrupt ==
    /\ pc \in Running
    /\ Raise("KeyboardInterrupt")
    /\ UNCHANGED << NameEnv, img_event, temp_files >>

\* lines 448-450
ExceptKeyboardInterrupt ==
    /\ pc = "except"
    /\ exc.type = "KeyboardInterrupt"
    /\ Return("none", <<>>)
    /\ UNCHANGED << Environment, results, NameVars, topic, llm_path, img_event, temp_files,
                    disk, exc, ran, ui >>

\* lines 451-454
ExceptException ==
    /\ pc = "except"
    /\ exc.type # "KeyboardInterrupt"
    /\ Return("none", <<>>)
    /\ UNCHANGED << Environment, results, NameVars, topic, llm_path, img_event, temp_files,
                    disk, exc, ran, ui >>

\* app.py, lines 33-54: what the generate button handler shows
AppShow ==
    /\ pc = "done"
    /\ pc' = "shown"
    /\ ui' = CASE result.kind = "filename" -> "success"
               [] result.kind = "none" -> "failed"
               [] result.kind = "raised" /\ result.value = <<"ValueError">> -> "configuration_error"
               [] OTHER -> "unexpected_error"
    /\ UNCHANGED << Environment, results, NameVars, topic, web_results, response, llm_path,
                    content, slides, kp, image_url, image_path, img_event, temp_files,
                    disk, exc, result, ran >>

Next ==
    \/ CheckKeys
    \/ GetTopic
    \/ perform_web_search
    \/ ModelCall
    \/ ExtractContent
    \/ AddTitleSlide
    \/ AddOverviewSlide
    \/ NextKeyPoint
    \/ perform_image_search
    \/ get_image_from_url
    \/ AddKeyPointSlide
    \/ AddConclusionSlide
    \/ save_presentation
    \/ Interrupt
    \/ ExceptKeyboardInterrupt
    \/ ExceptException
    \/ AppShow

Spec == Init /\ [][Next]_vars

----------------------------------------------------------------------------
(* The filename derivation on its own: save_presentation's lines 408-411   *)
(* for every short topic over Alphabet, and the sanitization applied again *)
(* to its own result.                                                      *)

Alphabet == { "A", "b", "1", " ", "\t", "!", "_" }

Cafe == << "C", "a", "f", "e'" >>

NameTopics == (SeqsUpTo(Alphabet, MaxTopicLen) \ { <<>> }) \cup Topics \cup { Cafe }

InitName ==
    /\ pc = "name"
    /\ gemini_api_key = TRUE
    /\ serpapi_api_key = TRUE
    /\ model = TRUE
    /\ topic \in NameTopics
    /\ web_results = <<>>
    /\ results = NoResults
    /\ response = NoResponse
    /\ llm_path = "none"
    /\ content = NoValue
    /\ slides = <<>>
    /\ kp = 0
    /\ image_url = FALSE
    /\ image_path = NoPath
    /\ img_event = "none"
    /\ temp_files = {}
    /\ disk = NoFile
    /\ filename = <<>>
    /\ exc = NoExc
    /\ result = NoResult
    /\ ran = {}
    /\ now = NoTime
    /\ safe_topic = <<>>
    /\ applied = 0
    /\ ui = "none"

RunVars ==
    << Environment, results, topic, web_results, response, llm_path, content, slides, kp,
       image_url, image_path, img_event, temp_files, disk, exc, result, ran, ui >>

\* lines 408-411
DeriveName ==
    /\ pc = "name"
    /\ safe_topic' = Sanitize(topic)
    /\ applied' = 1
    /\ now' \in Timestamps
    /\ filename' = FileName(safe_topic', now')
    /\ pc' = "named"
    /\ UNCHANGED RunVars

\* lines 408-409 applied to a sanitized topic
Resanitize ==
    /\ pc = "named"
    /\ applied <= MaxApply
    /\ safe_topic' = Sanitize(safe_topic)
    /\ applied' = applied + 1
    /\ UNCHANGED << RunVars, pc, now, filename >>

NextName == DeriveName \/ Resanitize

SpecName == InitName /\ [][NextName]_vars

----------------------------------------------------------------------------
(* The web search on its own: the pipeline up to the return of             *)
(* perform_web_search, for a provider that returns up to MaxResults        *)
(* organic results.                                                        *)

ManyWebResponses == WebResponsesOf(OrganicListsUpTo(MaxResults))

\* line 434
SearchMany == SearchWith(ManyWebResponses)

NextSearch == CheckKeys \/ GetTopic \/ SearchMany

SpecSearch == InitRun /\ [][NextSearch]_vars

----------------------------------------------------------------------------
(* What the claims are stated with. *)

Fallback == { "raise", "no_match", "parse_error" }

\* generate_presentation has ended
Ended == pc \in { "done", "shown" }

\* the slides create_presentation is to build for content c, the i-th key
\* point with a picture iff pictures[i]
ExpectedSlides(c, pictures) ==
    << TitleSlide(c.m["title_slide"]), SectionSlide(c.m["overview"]) >>
    \o [ i \in 1..4 |-> ContentSlide(c.m["key_points"].e[i].m["title"],
                                     c.m["key_points"].e[i].m["content"], pictures[i]) ]
    \o << SectionSlide(c.m["conclusion"]) >>

InSchemaOrder(s) ==
    /\ Len(s) >= 1
    /\ s[1].layout = "title"
    /\ \A i \in 2..Len(s) : s[i].layout = "content"

\* title-casing, position by position
RefTitle(s) ==
    [ i \in DOMAIN s |->
        IF ~IsCased(s[i]) THEN s[i]
        ELSE IF i > 1 /\ IsCased(s[i - 1]) THEN LowerChar(s[i])
        ELSE UpperChar(s[i]) ]

\* the sanitized topic in one pass: a letter or digit of [a-zA-Z0-9] is
\* kept, lowercased; a whitespace character yields "_" unless the last
\* character kept before it was whitespace; any other character is dropped
RECURSIVE RefSanitizeFrom(_, _)
RefSanitizeFrom(s, inRun) ==
    IF s = <<>> THEN <<>>
    ELSE IF IsSpace(Head(s))
         THEN (IF inRun THEN <<>> ELSE <<"_">>) \o RefSanitizeFrom(Tail(s), TRUE)
    ELSE IF IsUpper(Head(s)) \/ IsLower(Head(s)) \/ IsDigit(Head(s))
         THEN << IF IsUpper(Head(s)) THEN LowerLetters[IndexOf(UpperLetters, Head(s))]
                 ELSE Head(s) >> \o RefSanitizeFrom(Tail(s), FALSE)
    ELSE RefSanitizeFrom(Tail(s), inRun)

RefSanitize(s) == RefSanitizeFrom(s, FALSE)

IsNotUnderscore(c) == c # "_"

Stamp2024 == [ year |-> 2024, month |-> 1, day |-> 1, hour |-> 0, minute |-> 0, second |-> 0 ]

StampText(d) ==
    IF d = Stamp2024
    THEN << "2","0","2","4","0","1","0","1","_","0","0","0","0","0","0" >>
    ELSE << "2","0","2","5","1","2","3","1","_","2","3","5","9","5","9" >>

FutureOfAIFile ==
    << "presentation_", "f","u","t","u","r","e","_","o","f","_","a","i", "_",
       "2","0","2","4","0","1","0","1","_","0","0","0","0","0","0", ".pptx" >>

----------------------------------------------------------------------------
(* The claims. *)

\* C1 (as claimed): whatever the model returned or raised, the content
\* generate_llm_content returns has the four top-level keys and a
\* key_points list of length exactly 4.
C1_ContentHasShape == pc = "title" => HasShape(content)

\* C2 (as claimed): for schema-valid content, the presentation that
\* create_presentation returns has exactly 6 slides, in the order title,
\* overview, key points 1 to 4, conclusion.
C2_SixSlides ==
    (pc = "save" /\ SchemaValid(content)) =>
        /\ Len(slides) = 6
        /\ \E pictures \in [1..4 -> BOOLEAN] : slides = ExpectedSlides(content, pictures)

\* C2 (amended): for schema-valid content, the slides built so far are
\* always the first slides of title, overview, key points 1 to 4,
\* conclusion, the i-th key-point slide with the title and bullets of
\* key_points[i]; and the presentation create_presentation returns is all
\* 7 of them.
C2_SevenSlides ==
    (pc \in Running /\ SchemaValid(content)) =>
        /\ \E pictures \in [1..4 -> BOOLEAN] :
              slides = SubSeq(ExpectedSlides(content, pictures), 1, Len(slides))
        /\ pc = "save" => Len(slides) = 7
        /\ pc \in { "image_search", "download", "add_slide" } => Len(slides) = kp + 1

\* C2 (witness): create_presentation has returned 7 slides for parsed,
\* schema-valid content, one key-point slide with a picture, one without.
C2_Witness ==
    /\ pc = "save" /\ SchemaValid(content) /\ llm_path = "parsed"
    /\ Len(slides) = 7
    /\ slides[3].picture /\ ~slides[4].picture
    /\ slides[4].title = <<"K2">> /\ slides[4].body = << <<"b2">> >>

\* C3 (as claimed): once create_presentation has returned or raised, no
\* temporary image file exists.
C3_NoTempFileLeft == pc \in { "save", "except", "done", "shown" } => temp_files = {}

\* C4 (as claimed): generate_presentation ends by returning a filename
\* whose file holds a complete document of exactly 6 slides in schema
\* order, or by returning None with no file of the derived filename.
C4_FilenameOrNothing ==
    Ended =>
        \/ /\ result.kind = "filename"
           /\ disk.state = "complete"
           /\ Len(disk.slides) = 6
           /\ InSchemaOrder(disk.slides)
        \/ /\ result.kind = "none"
           /\ disk.state = "absent"

\* C5 (as claimed): a write error of the final document reaches the caller
\* of generate_presentation as an error.
C5_WriteErrorRaised ==
    (Ended /\ exc.type = "OSError" /\ exc.stage = "save") => result.kind = "raised"

\* C5 (amended): a failed write leaves save_presentation as an exception,
\* never as a filename; generate_presentation catches it and returns None.
C5_WriteErrorReturnsNone ==
    ("file_write" \in ran /\ disk.state # "complete") =>
        /\ exc = [ type |-> "OSError", stage |-> "save" ]
        /\ pc \in { "except", "done", "shown" }
        /\ result.kind = IF pc = "except" THEN "running" ELSE "none"

\* C5 (witness): the write failed and generate_presentation returned None.
C5_Witness ==
    /\ pc = "done" /\ "file_write" \in ran /\ disk.state = "partial"
    /\ exc.stage = "save" /\ result.kind = "none"

\* C6 (as claimed): with a credential absent, generate_presentation raises
\* a configuration error to its caller, and no pipeline stage has run.
C6_ConfigErrorRaised ==
    (Ended /\ exc.type = "ValueError") => (result.kind = "raised" /\ ran = {})

\* C7 (as claimed): sanitizing a sanitized topic gives the same string.
C7_Idempotent ==
    (pc = "named" /\ applied >= 2) => safe_topic = RefSanitize(topic)

\* C7 (amended): sanitizing a sanitized topic removes its underscores, and
\* nothing else, however often it is repeated; so the result is the same
\* string exactly when the topic holds no whitespace.
C7_DropsUnderscores ==
    (pc = "named" /\ applied >= 2) =>
        /\ safe_topic = SelectSeq(RefSanitize(topic), IsNotUnderscore)
        /\ (safe_topic = RefSanitize(topic)) <=> (\A i \in DOMAIN topic : ~IsSpace(topic[i]))

\* C7 (witness): a topic of several words, sanitized twice.
C7_Witness ==
    /\ pc = "named" /\ applied = 2 /\ topic = FutureOfAI
    /\ safe_topic = << "f","u","t","u","r","e","o","f","a","i" >>

\* C8: the filename is presentation_<s>_<YYYYMMDD_HHMMSS>.pptx, s the topic
\* without the characters other than letters and digits (those of
\* [a-zA-Z0-9]) and whitespace, each run of whitespace one underscore,
\* lowercased; "Future of AI!" at 2024-01-01 00:00:00 gives
\* presentation_future_of_ai_20240101_000000.pptx.
C8_Filename ==
    (pc = "named" /\ applied = 1) =>
        /\ safe_topic = RefSanitize(topic)
        /\ filename = << "presentation_" >> \o RefSanitize(topic) \o << "_" >>
                      \o StampText(now) \o << ".pptx" >>
        /\ (topic = FutureOfAI /\ now = Stamp2024) => filename = FutureOfAIFile

\* C8 (witness): the filename of "Future of AI!" at 2024-01-01 00:00:00.
C8_Witness ==
    /\ pc = "named" /\ applied = 1 /\ topic = FutureOfAI /\ now = Stamp2024
    /\ filename = FutureOfAIFile

ImageFailures ==
    { "search_raises", "no_images_results", "empty_images_results", "no_original",
      "status_not_200", "request_exception", "stream_exception", "os_error_create",
      "os_error_write", "embed_raises" }

\* C9 (as claimed): after any image failure for a key point the pipeline
\* continues with no image path, and the key-point slide is built with its
\* title and bullets and no picture.
C9_ImageFailureNonFatal ==
    img_event \in ImageFailures =>
        /\ ~(exc.type # "KeyboardInterrupt" /\ exc.stage \in { "image_search", "image_download" })
        /\ pc \in { "download", "add_slide" } => image_path = NoPath
        /\ (pc = "loop" /\ SchemaValid(content)) =>
              slides[Len(slides)] = ContentSlide(key_point.m["title"], key_point.m["content"], FALSE)

\* C10: when the model call raised (also for want of a model) or its text
\* could not be parsed, the content is the fallback content of the topic:
\* the title "Comprehensive Analysis: " and the title-cased topic, 4 bullets
\* of overview, the 4 fixed headings with 5 bullets each, 4 bullets of
\* conclusion; the same for the same topic.
C10_Fallback ==
    (pc = "title" /\ (~model \/ llm_path \in Fallback)) =>
        /\ llm_path \in Fallback
        /\ content = FallbackContent(topic)
        /\ SchemaValid(content)
        /\ content.m["title_slide"].m["title"].s
              = << "Comprehensive Analysis: " >> \o RefTitle(topic)
        /\ topic = AIEthics =>
              content.m["title_slide"].m["title"].s
                 = << "Comprehensive Analysis: ", "A","i"," ","E","t","h","i","c","s" >>
        /\ Len(content.m["overview"].m["content"].e) = 4
        /\ [ i \in 1..4 |-> content.m["key_points"].e[i].m["title"].s ]
              = << <<"Background & Context">>, <<"Challenges & Obstacles">>,
                   <<"Innovations & Solutions">>, <<"Future Outlook & Impact">> >>
        /\ \A i \in 1..4 : Len(content.m["key_points"].e[i].m["content"].e) = 5
        /\ Len(content.m["conclusion"].m["content"].e) = 4

\* C10 (witness): no model was configured, the topic is "AI Ethics".
C10_Witness ==
    /\ pc = "title" /\ ~model /\ llm_path = "raise" /\ topic = AIEthics
    /\ content.m["title_slide"].m["title"].s
          = << "Comprehensive Analysis: ", "A","i"," ","E","t","h","i","c","s" >>

\* C11: perform_web_search never raises: once the search has run, the
\* pipeline is at the synthesis call with no exception propagating, and
\* web_results holds the snippets of the provider's organic results that
\* have one, in provider order, cut to the first five; they are the empty
\* sequence when the provider raised or its answer has no organic_results.
HasSnippet(r) == r # 0

SnippetsInOrder(organic) ==
    LET s == SelectSeq(organic, HasSnippet)
    IN  [ i \in 1..Min({ 5, Len(s) }) |-> s[i] ]

C11_SearchNeverRaises ==
    "web_search" \in ran =>
        /\ pc = "llm"
        /\ exc = NoExc
        /\ result = NoResult
        /\ Len(web_results) <= 5
        /\ IF results.raises \/ ~results.has_organic
           THEN web_results = <<>>
           ELSE web_results = SnippetsInOrder(results.organic)

C11_Witness ==
    /\ pc = "llm"
    /\ results.organic = << 1, 2, 3, 4, 5, 6 >>
    /\ web_results = << 1, 2, 3, 4, 5 >>

\* C12: the span generate_llm_content parses is the first balanced object
\* of the raw text, from the first "{" to the "}" that closes it at depth
\* zero: when the raw text is a valid schema-matching object followed by
\* prose that holds further braces, the object is parsed and returned as
\* the content.
RECURSIVE ClosingBrace(_, _, _)
ClosingBrace(t, i, depth) ==
    IF i > Len(t) THEN 0
    ELSE IF t[i] = "{" THEN ClosingBrace(t, i + 1, depth + 1)
    ELSE IF t[i] = "}"
         THEN IF depth = 1 THEN i ELSE ClosingBrace(t, i + 1, depth - 1)
    ELSE ClosingBrace(t, i + 1, depth)

BalancedSpan(t) ==
    LET opens == Positions(t, "{")
    IN  IF opens = {} \/ ClosingBrace(t, Min(opens), 0) = 0 THEN <<>>
        ELSE SubSeq(t, Min(opens), ClosingBrace(t, Min(opens), 0))

ObjectThenBracedProse(r) ==
    /\ ~r.raises
    /\ LET span == BalancedSpan(r.text)
       IN  /\ span # <<>>
           /\ SubSeq(r.text, 1, Len(span)) = span
           /\ JsonLoads(span).ok
           /\ SchemaValid(JsonLoads(span).val)
           /\ \E i \in (Len(span) + 1)..Len(r.text) : r.text[i] \in { "{", "}" }

C12_FirstBalancedObject ==
    [][ (pc = "extract" /\ ObjectThenBracedProse(response))
            => /\ llm_path' = "parsed"
               /\ content' = JsonLoads(BalancedSpan(response.text)).val ]_vars

====
